---- MODULE Spec2Model ----
(***************************************************************************)
(* Model of the airuae rental marketplace backend: the bookings service,   *)
(* the payments controller (webhook and refund), the messaging service     *)
(* and the messaging socket gateway, over the relational schema.           *)
(***************************************************************************)
EXTENDS Integers, FiniteSets, Sequences, TLC

\* ------------------------------------------------------------------ bounds
\* Days are 1..MaxDay; a booking range is a pair of days.
MaxDay == 4
\* Total number of booking rows (the seeded one included).
MaxBookings == 2
\* In-flight BookingsService.create calls between conflict query and insert.
MaxPending == 2
\* Total number of booking rows when create calls interleave.
MaxConcBookings == 3
\* Conversation rows, message rows, and the last value of the clock.
MaxConversations == 2
MaxMessages == 2
MaxClock == 3
\* Socket connections, and the conversation and message rows while the gateway runs.
MaxSockets == 2
MaxGwConversations == 1
MaxGwMessages == 1
\* Property rows created after the seed.
MaxProperties == 1
\* useMessages.sendMessage: message rows at a call, and packets in flight.
MaxSendMessages == 3
MaxOutbox == 1

\* ------------------------------------------------------------ seeded data
\* prisma/seed.ts: the four seeded users and their roles.
Users == {"admin", "landlord", "agent", "user"}

Role(u) ==
    CASE u = "admin" -> "ADMIN"
      [] u = "landlord" -> "LANDLORD"
      [] u = "agent" -> "AGENT"
      [] OTHER -> "USER"

\* Property.latitude / longitude Float?: the column when no coordinate is stored.
Unset == ""

\* prisma/seed.ts: the three seeded properties, all available, each with an
\* address and no coordinates.
SeedProperties ==
    [p \in {"property1", "property2", "property3"} |->
        [ownerId |-> IF p = "property3" THEN "agent" ELSE "landlord",
         available |-> TRUE,
         address |-> "Dubai",
         city |-> "Dubai",
         latitude |-> Unset,
         longitude |-> Unset]]

\* JavaScript null / undefined of an optional id or column.
Null == 0
\* An id that no row carries (ids are allocated 1, 2, ... in insertion order).
MissingId == 99

\* Booking.paymentIntentId String?: the column when no payment is stored (falsy).
NoPaymentIntent == ""

\* CreateConversationDto.propertyId?: the optional property id when absent (falsy).
NoProperty == ""

\* The seeded booking's range in model days (seed.ts: 7 days from now, 5 nights).
SeedStart == 1
SeedEnd == 2

\* prisma/seed.ts: the one seeded booking, CONFIRMED, with no payment fields.
SeedBooking ==
    [id |-> 1, startDate |-> SeedStart, endDate |-> SeedEnd, status |-> "CONFIRMED",
     userId |-> "user", propertyId |-> "property3", paymentIntentId |-> NoPaymentIntent]

\* enum BookingStatus of the schema.
BookingStatus == {"PENDING", "CONFIRMED", "CANCELLED", "COMPLETED"}

Days == 1..MaxDay

\* AuthProvider's user state when nobody is logged in (null), and
\* SocketProvider's socket state when no socket exists (null).
NoUser == ""
NoSocket == [open |-> FALSE, token |-> ""]

\* Socket ids, and a socket that joined no room.
Sockets == 1..MaxSockets
NoRooms == [conversations |-> {}, user |-> ""]

VARIABLES
    properties,     \* Property table: id -> [ownerId, available, address, city, latitude, longitude]
    bookings,       \* Booking table: set of rows
    pending,        \* create calls that passed the conflict query, not yet inserted
    conversations,  \* Conversation table with its participants relation
    messages,       \* Message table
    pendingConv,    \* createConversation calls validated, not yet inserted
    clock,          \* the time new Date() returns
    connectedClients, \* MessagingGateway.connectedClients: socket id -> user id
    sockets,        \* per socket: connection open, token verified, user of an awaiting handleConnection
    rooms,          \* per socket: the conversation rooms and the user room it is in
    emitted,        \* what the last call emitted: set of [room, event]
    searchIndex,    \* the search engine's 'properties' index: id -> indexed document
    propertySeq,    \* how many Property rows were created since the seed
    webUser,        \* AuthProvider's user state ("" when null)
    authToken,      \* localStorage 'authToken' ("" when absent)
    webSocket,      \* SocketProvider's socket state
    isConnected,    \* SocketProvider's isConnected state
    paymentSuccess, \* CheckoutPage's paymentSuccess state
    outbox,         \* createMessage packets emitted by useMessages, not yet handled: sequence of [socket, dto]
    last            \* the last completed call: operation, inputs, outcome

bookingVars == <<properties, bookings, pending>>
msgVars == <<conversations, messages, pendingConv, clock>>
gwVars == <<connectedClients, sockets, rooms, emitted>>
propsVars == <<searchIndex, propertySeq>>
webVars == <<webUser, authToken, webSocket, isConnected, paymentSuccess, outbox>>
vars == <<bookingVars, msgVars, gwVars, propsVars, webVars, last>>

\* ---------------------------------------------------------------- results
Ok == [ok |-> TRUE, kind |-> "OK", msg |-> ""]
Err(kind, msg) == [ok |-> FALSE, kind |-> kind, msg |-> msg]

\* ------------------------------------------------------- BookingsService
BookingIds(bk) == {b.id : b \in bk}
BookingById(bk, id) == CHOOSE b \in bk : b.id = id

\* The WHERE clause of the conflict query: same property, status in
\* (PENDING, CONFIRMED), startDate <= new end and endDate >= new start.
ConflictsStrict(b, pid, s, e) ==
    /\ b.propertyId = pid
    /\ b.status \in {"PENDING", "CONFIRMED"}
    /\ b.startDate < e
    /\ b.endDate > s
Conflicts(b, pid, s, e) ==
    /\ b.propertyId = pid
    /\ b.status \in {"PENDING", "CONFIRMED"}
    /\ b.startDate <= e
    /\ b.endDate >= s

ExistingBookings(bk, pid, s, e) == {b \in bk : Conflicts(b, pid, s, e)}

\* BookingsService.create up to and including the conflict query: the
\* exception it throws, or Ok when it goes on to the insert.
CreateCheckIgnoresAvailability(props, bk, dto) ==
    IF dto.propertyId \notin DOMAIN props
    THEN Err("NotFound", "Property not found")
    ELSE IF dto.startDate >= dto.endDate
    THEN Err("BadRequest", "End date must be after start date")
    ELSE IF ExistingBookings(bk, dto.propertyId, dto.startDate, dto.endDate) # {}
    THEN Err("BadRequest", "The property is already booked for the selected dates")
    ELSE Ok
CreateCheck(props, bk, dto) ==
    IF dto.propertyId \notin DOMAIN props
    THEN Err("NotFound", "Property not found")
    ELSE IF ~props[dto.propertyId].available
    THEN Err("BadRequest", "Property is not available for booking")
    ELSE IF dto.startDate >= dto.endDate
    THEN Err("BadRequest", "End date must be after start date")
    ELSE IF ExistingBookings(bk, dto.propertyId, dto.startDate, dto.endDate) # {}
    THEN Err("BadRequest", "The property is already booked for the selected dates")
    ELSE Ok

\* A create that stores a payment intent with the booking.
NewBookingWithPaymentIntent(bk, userId, dto) ==
    [id |-> Cardinality(bk) + 1, startDate |-> dto.startDate, endDate |-> dto.endDate,
     status |-> "PENDING", userId |-> userId, propertyId |-> dto.propertyId,
     paymentIntentId |-> "pi_new"]

\* prisma.booking.create of BookingsService.create.
NewBooking(bk, userId, dto) ==
    [id |-> Cardinality(bk) + 1, startDate |-> dto.startDate, endDate |-> dto.endDate,
     status |-> "PENDING", userId |-> userId, propertyId |-> dto.propertyId,
     paymentIntentId |-> NoPaymentIntent]

\* prisma.booking.update({where: {id}, data: {status}}).
SetStatus(bk, id, st) ==
    {IF b.id = id THEN [b EXCEPT !.status = st] ELSE b : b \in bk}

\* Inputs of create: the requested property and the caller.
PropertyInputs == {"property1", "property3", "missing"}
Bookers == {"user"}
CreateDtos == [propertyId : PropertyInputs, startDate : Days, endDate : Days]

\* BookingsService.create run without interleaving.
Create(userId, dto) ==
    LET r == CreateCheck(properties, bookings, dto) IN
    /\ Cardinality(bookings) < MaxBookings
    /\ bookings' = IF r.ok THEN bookings \cup {NewBooking(bookings, userId, dto)}
                   ELSE bookings
    /\ last' = [op |-> "create", caller |-> userId, dto |-> dto, res |-> r]
    /\ UNCHANGED <<propsVars, webVars, properties, pending, msgVars, gwVars>>

\* The authorization of updateStatus.
IsAuthorizedNoCheck(isOwner, isBooker, isAdmin) == TRUE
IsAuthorized(isOwner, isBooker, isAdmin) == isOwner \/ isBooker \/ isAdmin

\* "Users can only cancel their own bookings".
BookerMayNotAny(isOwner, isBooker, isAdmin, st) == FALSE
BookerMayNot(isOwner, isBooker, isAdmin, st) ==
    isBooker /\ ~isOwner /\ ~isAdmin /\ st # "CANCELLED"

\* updateStatus refusing to leave CANCELLED and COMPLETED.
UpdateStatusResultTerminal(props, bk, id, userId, userRole, st) ==
    IF id \notin BookingIds(bk)
    THEN Err("NotFound", "Booking not found")
    ELSE LET booking == BookingById(bk, id)
             isOwner == props[booking.propertyId].ownerId = userId
             isBooker == booking.userId = userId
             isAdmin == userRole = "ADMIN"
         IN  IF ~IsAuthorized(isOwner, isBooker, isAdmin)
             THEN Err("Forbidden", "You do not have permission to update this booking")
             ELSE IF BookerMayNot(isOwner, isBooker, isAdmin, st)
             THEN Err("Forbidden", "You can only cancel your own bookings")
             ELSE IF booking.status \in {"CANCELLED", "COMPLETED"}
             THEN Err("BadRequest", "Booking is closed")
             ELSE Ok

\* BookingsService.updateStatus: findOne, the two permission checks, the update.
UpdateStatusResult(props, bk, id, userId, userRole, st) ==
    IF id \notin BookingIds(bk)
    THEN Err("NotFound", "Booking not found")
    ELSE LET booking == BookingById(bk, id)
             isOwner == props[booking.propertyId].ownerId = userId
             isBooker == booking.userId = userId
             isAdmin == userRole = "ADMIN"
         IN  IF ~IsAuthorized(isOwner, isBooker, isAdmin)
             THEN Err("Forbidden", "You do not have permission to update this booking")
             ELSE IF BookerMayNot(isOwner, isBooker, isAdmin, st)
             THEN Err("Forbidden", "You can only cancel your own bookings")
             ELSE Ok

IdInputs == 1..MaxBookings \cup {MissingId}

UpdateStatus(id, userId, st) ==
    LET r == UpdateStatusResult(properties, bookings, id, userId, Role(userId), st) IN
    /\ bookings' = IF r.ok THEN SetStatus(bookings, id, st) ELSE bookings
    /\ last' = [op |-> "updateStatus", caller |-> userId, id |-> id, status |-> st,
                from |-> IF id \in BookingIds(bookings)
                         THEN BookingById(bookings, id).status ELSE "",
                res |-> r]
    /\ UNCHANGED <<propsVars, webVars, properties, pending, msgVars, gwVars>>

\* BookingsService.cancel: updateStatus with status CANCELLED.
Cancel(id, userId) ==
    LET r == UpdateStatusResult(properties, bookings, id, userId, Role(userId),
                                "CANCELLED") IN
    /\ bookings' = IF r.ok THEN SetStatus(bookings, id, "CANCELLED") ELSE bookings
    /\ last' = [op |-> "cancel", caller |-> userId, id |-> id, status |-> "CANCELLED",
                res |-> r]
    /\ UNCHANGED <<propsVars, webVars, properties, pending, msgVars, gwVars>>

\* ------------------------------------------------- StripeService (webhook)
\* The event types the provider may deliver.
EventTypes == {"checkout.session.completed", "payment_intent.succeeded",
               "payment_intent.payment_failed", "charge.succeeded"}
\* stripe-signature header: absent, failing verification, verifying.
Signatures == {"none", "bad", "good"}

\* A provider event: its type and its data object (a checkout session or a
\* payment intent: an id and the metadata given when it was created).
StripeEvent(type, bookingId) ==
    [type |-> type,
     data |-> [object |-> [id |-> "obj", metadata |-> [bookingId |-> bookingId]]]]

\* handlePaymentIntentSucceeded / handlePaymentIntentFailed /
\* handleCheckoutSessionCompleted: each returns the data object it was given.
HandleDataObject(obj) == obj

\* StripeService.handleWebhookEvent: null without a configured secret, throws
\* when constructEvent rejects the signature, and otherwise returns what the
\* per-type handler returns, or the event itself for an unhandled type.
HandleWebhookEventUnverified(secretSet, signature, event) ==
    IF ~secretSet THEN [thrown |-> FALSE, isNull |-> FALSE, value |-> event]
    ELSE IF signature # "good" THEN [thrown |-> TRUE, isNull |-> FALSE, value |-> [none |-> TRUE]]
    ELSE IF event.type \in {"payment_intent.succeeded", "payment_intent.payment_failed",
                            "checkout.session.completed"}
    THEN [thrown |-> FALSE, isNull |-> FALSE, value |-> HandleDataObject(event.data.object)]
    ELSE [thrown |-> FALSE, isNull |-> FALSE, value |-> event]
HandleWebhookEvent(secretSet, signature, event) ==
    IF ~secretSet THEN [thrown |-> FALSE, isNull |-> TRUE, value |-> [none |-> TRUE]]
    ELSE IF signature # "good" THEN [thrown |-> TRUE, isNull |-> FALSE, value |-> [none |-> TRUE]]
    ELSE IF event.type \in {"payment_intent.succeeded", "payment_intent.payment_failed",
                            "checkout.session.completed"}
    THEN [thrown |-> FALSE, isNull |-> FALSE, value |-> HandleDataObject(event.data.object)]
    ELSE [thrown |-> FALSE, isNull |-> FALSE, value |-> event]

\* JavaScript property read v.type: undefined when v has no such property.
TypeOf(v) == IF "type" \in DOMAIN v THEN v.type ELSE "undefined"

\* PaymentsController.handleWebhook: the booking it confirms (Null for none)
\* and its response.
WebhookOutcome(bk, secretSet, signature, event) ==
    IF signature = "none"
    THEN [confirm |-> Null, res |-> Err("BadRequest", "Missing stripe-signature header")]
    ELSE LET r == HandleWebhookEvent(secretSet, signature, event) IN
         IF r.thrown THEN [confirm |-> Null, res |-> Err("BadRequest", "Webhook error")]
         ELSE IF ~r.isNull /\ TypeOf(r.value) \in {"checkout.session.completed",
                                                   "payment_intent.succeeded"}
         THEN LET bookingId == r.value.data.object.metadata.bookingId IN
              IF bookingId = Null THEN [confirm |-> Null, res |-> Ok]
              ELSE IF bookingId \notin BookingIds(bk)
              THEN [confirm |-> Null, res |-> Err("BadRequest", "Webhook error")]
              ELSE [confirm |-> bookingId, res |-> Ok]
         ELSE [confirm |-> Null, res |-> Ok]

MetadataInputs == IdInputs \cup {Null}

\* secretSet: whether STRIPE_WEBHOOK_SECRET is configured in the environment
\* the call runs in.
HandleWebhook(secretSet, signature, type, bookingId) ==
    LET o == WebhookOutcome(bookings, secretSet, signature,
                            StripeEvent(type, bookingId)) IN
    /\ bookings' = IF o.confirm # Null THEN SetStatus(bookings, o.confirm, "CONFIRMED")
                   ELSE bookings
    /\ last' = [op |-> "webhook", secretSet |-> secretSet, signature |-> signature,
                type |-> type, id |-> bookingId, res |-> o.res]
    /\ UNCHANGED <<propsVars, webVars, properties, pending, msgVars, gwVars>>

\* ------------------------------------------- PaymentsController.createRefund
\* The permission check of createRefund.
MayRefundAnyone(isBookingOwner, isPropertyOwner, isAdmin) == TRUE
MayRefund(isBookingOwner, isPropertyOwner, isAdmin) ==
    isBookingOwner \/ isPropertyOwner \/ isAdmin

\* createRefund: the exception it throws, or Ok when the booking is cancelled.
\* providerOk: whether stripe.refunds.create succeeded.
RefundResult(props, bk, id, userId, userRole, providerOk) ==
    IF id \notin BookingIds(bk)
    THEN Err("NotFound", "Booking not found")
    ELSE LET booking == BookingById(bk, id)
             isBookingOwner == booking.userId = userId
             isPropertyOwner == props[booking.propertyId].ownerId = userId
             isAdmin == userRole = "ADMIN"
         IN  IF ~MayRefund(isBookingOwner, isPropertyOwner, isAdmin)
             THEN Err("Unauthorized", "You do not have permission to refund this booking")
             ELSE IF booking.status # "CONFIRMED"
             THEN Err("BadRequest", "Can only refund confirmed bookings")
             ELSE IF booking.paymentIntentId = NoPaymentIntent
             THEN Err("BadRequest", "No payment found for this booking")
             ELSE IF ~providerOk
             THEN Err("BadRequest", "Failed to create refund")
             ELSE Ok

CreateRefund(id, userId, providerOk) ==
    LET r == RefundResult(properties, bookings, id, userId, Role(userId), providerOk) IN
    /\ bookings' = IF r.ok THEN SetStatus(bookings, id, "CANCELLED") ELSE bookings
    /\ last' = [op |-> "createRefund", caller |-> userId, id |-> id,
                providerOk |-> providerOk, res |-> r]
    /\ UNCHANGED <<propsVars, webVars, properties, pending, msgVars, gwVars>>

Init ==
    /\ properties = SeedProperties
    /\ bookings = {SeedBooking}
    /\ pending = {}
    /\ conversations = {}
    /\ messages = {}
    /\ pendingConv = {}
    /\ clock = 1
    /\ connectedClients = << >>
    /\ sockets = [s \in Sockets |-> [open |-> FALSE, verified |-> FALSE, joining |-> ""]]
    /\ rooms = [s \in Sockets |-> NoRooms]
    /\ emitted = {}
    /\ searchIndex = << >>
    /\ propertySeq = 0
    /\ webUser = NoUser
    /\ authToken = ""
    /\ webSocket = NoSocket
    /\ isConnected = FALSE
    /\ paymentSuccess = FALSE
    /\ outbox = << >>
    /\ last = [op |-> "none"]

Next ==
    \/ \E u \in Bookers, dto \in CreateDtos : Create(u, dto)
    \/ \E id \in IdInputs, u \in Users, st \in BookingStatus : UpdateStatus(id, u, st)
    \/ \E id \in IdInputs, u \in Users : Cancel(id, u)
    \/ \E sec \in BOOLEAN, sig \in Signatures, t \in EventTypes, id \in MetadataInputs :
          HandleWebhook(sec, sig, t, id)
    \/ \E id \in IdInputs, u \in Users, ok \in BOOLEAN : CreateRefund(id, u, ok)

Spec == Init /\ [][Next]_vars

\* A database in which the seeded booking carries a stored payment intent.
InitPaid ==
    /\ properties = SeedProperties
    /\ bookings = {[SeedBooking EXCEPT !.paymentIntentId = "pi_seed"]}
    /\ pending = {}
    /\ conversations = {}
    /\ messages = {}
    /\ pendingConv = {}
    /\ clock = 1
    /\ connectedClients = << >>
    /\ sockets = [s \in Sockets |-> [open |-> FALSE, verified |-> FALSE, joining |-> ""]]
    /\ rooms = [s \in Sockets |-> NoRooms]
    /\ emitted = {}
    /\ searchIndex = << >>
    /\ propertySeq = 0
    /\ webUser = NoUser
    /\ authToken = ""
    /\ webSocket = NoSocket
    /\ isConnected = FALSE
    /\ paymentSuccess = FALSE
    /\ outbox = << >>
    /\ last = [op |-> "none"]

SpecPaid == InitPaid /\ [][Next]_vars

\* ---------------------------------------- BookingsService.create, interleaved
\* create up to its conflict query (the awaits before prisma.booking.create):
\* a call that passes is in flight until its insert runs.
Calls == 1..MaxPending

CreateQuery(k, userId, dto) ==
    LET r == CreateCheck(properties, bookings, dto) IN
    /\ k \notin {c.call : c \in pending}
    /\ Cardinality(bookings) + Cardinality(pending) < MaxConcBookings
    /\ pending' = IF r.ok THEN pending \cup {[call |-> k, userId |-> userId, dto |-> dto]}
                  ELSE pending
    /\ last' = [op |-> "createQuery", call |-> k, caller |-> userId, dto |-> dto, res |-> r]
    /\ UNCHANGED <<propsVars, webVars, properties, bookings, msgVars, gwVars>>

\* What the insert of an in-flight create does with the table as it is now:
\* prisma.booking.create runs with no further check.
InsertRecheck(props, bk, c) == CreateCheck(props, bk, c.dto)
InsertResult(props, bk, c) == Ok

CreateInsert(c) ==
    LET r == InsertResult(properties, bookings, c) IN
    /\ c \in pending
    /\ pending' = pending \ {c}
    /\ bookings' = IF r.ok THEN bookings \cup {NewBooking(bookings, c.userId, c.dto)}
                   ELSE bookings
    /\ last' = [op |-> "createInsert", call |-> c.call, caller |-> c.userId,
                dto |-> c.dto, res |-> r]
    /\ UNCHANGED <<propsVars, webVars, properties, msgVars, gwVars>>

NextConc ==
    \/ \E k \in Calls, u \in Bookers, dto \in CreateDtos : CreateQuery(k, u, dto)
    \/ \E c \in pending : CreateInsert(c)

SpecConc == Init /\ [][NextConc]_vars

\* ------------------------------------------------------- MessagingService
Range(seq) == {seq[i] : i \in DOMAIN seq}

ConversationIds(convs) == {c.id : c \in convs}
ConversationById(convs, id) == CHOOSE c \in convs : c.id = id

\* "Make sure current user is included in participants".
WithCurrentUser(participantIds, currentUserId) ==
    IF currentUserId \in Range(participantIds) THEN participantIds
    ELSE Append(participantIds, currentUserId)

\* prisma.user.findMany({where: {id: {in: participantIds}}}).
FoundParticipants(participantIds) == {u \in Users : u \in Range(participantIds)}

\* createConversation up to the participant validation: the exception it
\* throws, or Ok when it goes on to prisma.conversation.create.
ConversationCheck(props, bk, convs, dto, currentUserId) ==
    LET participantIds == WithCurrentUser(dto.participantIds, currentUserId) IN
    IF dto.propertyId # NoProperty /\ dto.propertyId \notin DOMAIN props
    THEN Err("NotFound", "Property not found")
    ELSE IF dto.bookingId # Null /\ dto.bookingId \notin BookingIds(bk)
    THEN Err("NotFound", "Booking not found")
    ELSE IF dto.bookingId # Null /\ (\E c \in convs : c.bookingId = dto.bookingId)
    THEN Err("BadRequest", "A conversation for this booking already exists")
    ELSE IF Cardinality(FoundParticipants(participantIds)) # Len(participantIds)
    THEN Err("NotFound", "One or more participants not found")
    ELSE Ok

\* model Conversation: bookingId String? @unique. The insert of a second row
\* with the same non-null bookingId is refused by the database.
NoUniqueConstraint(convs, bookingId) == FALSE
UniqueViolation(convs, bookingId) ==
    bookingId # Null /\ (\E c \in convs : c.bookingId = bookingId)

\* prisma.conversation.create with participants connected.
NewConversation(convs, dto, currentUserId) ==
    [id |-> Cardinality(convs) + 1, propertyId |-> dto.propertyId,
     bookingId |-> dto.bookingId,
     participants |-> Range(WithCurrentUser(dto.participantIds, currentUserId))]

\* The participant test of createMessage.
AnySender(conv, senderId) == TRUE
IsParticipant(conv, userId) == userId \in conv.participants

\* getConversation without the participant test.
ParticipantCheckAnyUser(convs, conversationId, userId) ==
    IF conversationId \notin ConversationIds(convs)
    THEN Err("NotFound", "Conversation not found")
    ELSE Ok

\* The checks shared by getConversation, getMessages and markMessagesAsRead.
ParticipantCheck(convs, conversationId, userId) ==
    IF conversationId \notin ConversationIds(convs)
    THEN Err("NotFound", "Conversation not found")
    ELSE IF ~(userId \in ConversationById(convs, conversationId).participants)
    THEN Err("Forbidden", "You are not a participant in this conversation")
    ELSE Ok

\* The checks of createMessage.
CreateMessageCheck(convs, conversationId, senderId) ==
    IF conversationId \notin ConversationIds(convs)
    THEN Err("NotFound", "Conversation not found")
    ELSE IF ~IsParticipant(ConversationById(convs, conversationId), senderId)
    THEN Err("Forbidden", "You are not a participant in this conversation")
    ELSE Ok

\* prisma.message.create.
NewMessage(msgs, conversationId, senderId) ==
    [id |-> Cardinality(msgs) + 1, conversationId |-> conversationId,
     senderId |-> senderId, readAt |-> Null]

\* prisma.message.updateMany of markMessagesAsRead.
MarkReadOverwrites(msgs, conversationId, userId, now) ==
    {IF m.conversationId = conversationId /\ m.senderId # userId
     THEN [m EXCEPT !.readAt = now] ELSE m : m \in msgs}
MarkRead(msgs, conversationId, userId, now) ==
    {IF m.conversationId = conversationId /\ m.senderId # userId /\ m.readAt = Null
     THEN [m EXCEPT !.readAt = now] ELSE m : m \in msgs}

\* Inputs of the messaging endpoints.
MsgCallers == {"user", "agent", "landlord"}
ConvCreators == {"user", "agent"}
ParticipantInputs == {<<>>, <<"agent">>, <<"agent", "agent">>, <<"ghost">>}
ConversationDtos ==
    [participantIds : ParticipantInputs, propertyId : {NoProperty, "missing"},
     bookingId : {Null, 1, MissingId}, initialMessage : BOOLEAN]
ConversationInputs == 1..MaxConversations \cup {MissingId}

\* createConversation, first part: the validations (each an awaited query).
CreateConversationCheck(k, dto, currentUserId) ==
    LET r == ConversationCheck(properties, bookings, conversations, dto, currentUserId) IN
    /\ k \notin {c.call : c \in pendingConv}
    /\ Cardinality(conversations) + Cardinality(pendingConv) < MaxConversations
    /\ pendingConv' = IF r.ok
                      THEN pendingConv \cup {[call |-> k, dto |-> dto, userId |-> currentUserId]}
                      ELSE pendingConv
    /\ last' = [op |-> "createConversationCheck", caller |-> currentUserId, dto |-> dto,
                res |-> r]
    /\ UNCHANGED <<propsVars, webVars, bookingVars, conversations, messages, clock, gwVars>>

\* createConversation, second part: the insert, then the initial message
\* through createMessage.
CreateConversationInsert(c) ==
    LET conv == NewConversation(conversations, c.dto, c.userId)
        refused == UniqueViolation(conversations, c.dto.bookingId)
        withMessage == ~refused /\ c.dto.initialMessage
                       /\ CreateMessageCheck(conversations \cup {conv}, conv.id, c.userId).ok
    IN
    /\ c \in pendingConv
    /\ withMessage => Cardinality(messages) < MaxMessages
    /\ pendingConv' = pendingConv \ {c}
    /\ conversations' = IF refused THEN conversations ELSE conversations \cup {conv}
    /\ messages' = IF withMessage
                   THEN messages \cup {NewMessage(messages, conv.id, c.userId)}
                   ELSE messages
    /\ last' = [op |-> "createConversation", caller |-> c.userId, dto |-> c.dto,
                res |-> IF refused
                        THEN Err("Internal", "Unique constraint failed on bookingId")
                        ELSE Ok]
    /\ UNCHANGED <<propsVars, webVars, bookingVars, clock, gwVars>>

CreateMessage(conversationId, senderId) ==
    LET r == CreateMessageCheck(conversations, conversationId, senderId) IN
    /\ Cardinality(messages) < MaxMessages
    /\ messages' = IF r.ok THEN messages \cup {NewMessage(messages, conversationId, senderId)}
                   ELSE messages
    /\ last' = [op |-> "createMessage", caller |-> senderId, id |-> conversationId,
                res |-> r]
    /\ UNCHANGED <<propsVars, webVars, bookingVars, conversations, pendingConv, clock, gwVars>>

GetConversation(id, userId) ==
    /\ last' = [op |-> "getConversation", caller |-> userId, id |-> id,
                res |-> ParticipantCheck(conversations, id, userId)]
    /\ UNCHANGED <<propsVars, webVars, bookingVars, msgVars, gwVars>>

GetMessages(conversationId, userId) ==
    /\ last' = [op |-> "getMessages", caller |-> userId, id |-> conversationId,
                res |-> ParticipantCheck(conversations, conversationId, userId)]
    /\ UNCHANGED <<propsVars, webVars, bookingVars, msgVars, gwVars>>

MarkMessagesAsRead(conversationId, userId) ==
    LET r == ParticipantCheck(conversations, conversationId, userId) IN
    /\ clock < MaxClock
    /\ clock' = clock + 1
    /\ messages' = IF r.ok THEN MarkRead(messages, conversationId, userId, clock)
                   ELSE messages
    /\ last' = [op |-> "markMessagesAsRead", caller |-> userId, id |-> conversationId,
                res |-> r]
    /\ UNCHANGED <<propsVars, webVars, bookingVars, conversations, pendingConv, gwVars>>

\* createConversation run without interleaving.
CreateConversation(dto, currentUserId) ==
    LET r == ConversationCheck(properties, bookings, conversations, dto, currentUserId)
        conv == NewConversation(conversations, dto, currentUserId)
        withMessage == r.ok /\ dto.initialMessage
                       /\ CreateMessageCheck(conversations \cup {conv}, conv.id,
                                             currentUserId).ok
    IN
    /\ Cardinality(conversations) < MaxConversations
    /\ withMessage => Cardinality(messages) < MaxMessages
    /\ conversations' = IF r.ok THEN conversations \cup {conv} ELSE conversations
    /\ messages' = IF withMessage
                   THEN messages \cup {NewMessage(messages, conv.id, currentUserId)}
                   ELSE messages
    /\ last' = [op |-> "createConversation", caller |-> currentUserId, dto |-> dto,
                res |-> r]
    /\ UNCHANGED <<propsVars, webVars, bookingVars, pendingConv, clock, gwVars>>

NextConv ==
    \/ \E k \in Calls, dto \in ConversationDtos, u \in ConvCreators :
          CreateConversationCheck(k, dto, u)
    \/ \E c \in pendingConv : CreateConversationInsert(c)

SpecConv == Init /\ [][NextConv]_vars

NextMsg ==
    \/ \E dto \in ConversationDtos, u \in ConvCreators : CreateConversation(dto, u)
    \/ \E id \in ConversationInputs, u \in MsgCallers : CreateMessage(id, u)
    \/ \E id \in ConversationInputs, u \in MsgCallers : GetConversation(id, u)
    \/ \E id \in ConversationInputs, u \in MsgCallers : GetMessages(id, u)
    \/ \E id \in ConversationInputs, u \in MsgCallers : MarkMessagesAsRead(id, u)

SpecMsg == Init /\ [][NextMsg]_vars

\* ------------------------------------------------------- MessagingGateway
\* Handshake tokens: absent, failing jwtService.verify, or signed for a user
\* (AuthService signs {sub: user.id}).
TokenInputs == {"none", "invalid", "user", "agent"}
ValidTokens == {"user", "agent"}

\* jwtService.verify(token): throws, or the payload with its sub.
Verify(token) == [ok |-> token \in ValidTokens, sub |-> token]

\* connectedClients.set / connectedClients.delete.
SetClient(cc, s, userId) == [x \in DOMAIN cc \cup {s} |-> IF x = s THEN userId ELSE cc[x]]
KeepClient(cc, s) == cc
DeleteClient(cc, s) == [x \in DOMAIN cc \ {s} |-> cc[x]]

\* The rooms of the messaging namespace.
ConversationRoom(id) == [conversation |-> id]
UserRoom(userId) == [user |-> userId]

\* MessagingService.getConversations(userId): the user's conversations.
GetConversations(convs, userId) == {c \in convs : userId \in c.participants}

\* handleConnection up to its await: no token or a token that fails
\* verification disconnects the client; a verified one is stored.
Connect(s, token) ==
    LET v == Verify(token)
        accepted == token # "none" /\ v.ok
    IN
    /\ ~sockets[s].open
    /\ sockets[s].joining = ""
    /\ connectedClients' = IF accepted THEN SetClient(connectedClients, s, v.sub)
                           ELSE connectedClients
    /\ sockets' = [sockets EXCEPT ![s] =
                     [open |-> accepted, verified |-> token \in ValidTokens,
                      joining |-> IF accepted THEN v.sub ELSE ""]]
    /\ rooms' = [rooms EXCEPT ![s] = NoRooms]
    /\ emitted' = {}
    /\ last' = [op |-> "handleConnection", socket |-> s, token |-> token,
                res |-> IF accepted THEN Ok ELSE Err("Disconnected", "Connection refused")]
    /\ UNCHANGED <<propsVars, webVars, bookingVars, msgVars>>

\* handleConnection after getConversations returned (dbOk) or threw: join the
\* rooms, or disconnect the client, which runs handleDisconnect.
ConnectJoin(s, dbOk) ==
    LET userId == sockets[s].joining IN
    /\ userId # ""
    /\ sockets' = [sockets EXCEPT ![s].joining = "",
                                  ![s].open = IF dbOk THEN @ ELSE FALSE]
    /\ rooms' = [rooms EXCEPT ![s] =
                   IF dbOk
                   THEN [conversations |->
                            {c.id : c \in GetConversations(conversations, userId)},
                         user |-> userId]
                   ELSE NoRooms]
    /\ connectedClients' = IF dbOk THEN connectedClients
                           ELSE DeleteClient(connectedClients, s)
    /\ emitted' = {}
    /\ last' = [op |-> "handleConnectionJoin", socket |-> s,
                res |-> IF dbOk THEN Ok ELSE Err("Disconnected", "Connection error")]
    /\ UNCHANGED <<propsVars, webVars, bookingVars, msgVars>>

\* The client goes away: handleDisconnect, and the socket leaves its rooms.
Disconnect(s) ==
    /\ sockets[s].open
    /\ connectedClients' = DeleteClient(connectedClients, s)
    /\ sockets' = [sockets EXCEPT ![s].open = FALSE]
    /\ rooms' = [rooms EXCEPT ![s] = NoRooms]
    /\ emitted' = {}
    /\ last' = [op |-> "handleDisconnect", socket |-> s, res |-> Ok]
    /\ UNCHANGED <<propsVars, webVars, bookingVars, msgVars>>

NotAuthenticated == Err("NotAuthenticated", "Not authenticated")

\* connectedClients.get(client.id) is undefined.
HasNoUser(cc, s) == s \notin DOMAIN cc

\* @SubscribeMessage('createMessage')
HandleCreateMessage(s, conversationId) ==
    LET r == IF HasNoUser(connectedClients, s) THEN NotAuthenticated
             ELSE CreateMessageCheck(conversations, conversationId, connectedClients[s])
    IN
    /\ Cardinality(messages) < MaxGwMessages
    /\ messages' = IF r.ok
                   THEN messages \cup
                        {NewMessage(messages, conversationId, connectedClients[s])}
                   ELSE messages
    /\ emitted' = IF r.ok
                  THEN {[to |-> ConversationRoom(conversationId), event |-> "newMessage"]}
                       \cup {[to |-> UserRoom(p), event |-> "notification"] :
                               p \in ConversationById(conversations, conversationId).participants
                                     \ {connectedClients[s]}}
                  ELSE {}
    /\ last' = [op |-> "handleCreateMessage", socket |-> s, id |-> conversationId,
                res |-> r]
    /\ UNCHANGED <<propsVars, webVars, bookingVars, conversations, pendingConv, clock,
                   connectedClients, sockets, rooms>>

\* @SubscribeMessage('markAsRead')
HandleMarkAsRead(s, conversationId) ==
    LET r == IF HasNoUser(connectedClients, s) THEN NotAuthenticated
             ELSE ParticipantCheck(conversations, conversationId, connectedClients[s])
    IN
    /\ clock < MaxClock
    /\ clock' = clock + 1
    /\ messages' = IF r.ok
                   THEN MarkRead(messages, conversationId, connectedClients[s], clock)
                   ELSE messages
    /\ emitted' = IF r.ok
                  THEN {[to |-> ConversationRoom(conversationId), event |-> "messagesRead"]}
                  ELSE {}
    /\ last' = [op |-> "handleMarkAsRead", socket |-> s, id |-> conversationId, res |-> r]
    /\ UNCHANGED <<propsVars, webVars, bookingVars, conversations, pendingConv, connectedClients, sockets, rooms>>

\* @SubscribeMessage('typing')
HandleTyping(s, conversationId) ==
    LET r == IF HasNoUser(connectedClients, s) THEN NotAuthenticated ELSE Ok IN
    /\ emitted' = IF r.ok
                  THEN {[to |-> ConversationRoom(conversationId), event |-> "userTyping"]}
                  ELSE {}
    /\ last' = [op |-> "handleTyping", socket |-> s, id |-> conversationId, res |-> r]
    /\ UNCHANGED <<propsVars, webVars, bookingVars, msgVars, connectedClients, sockets, rooms>>

\* @SubscribeMessage('joinConversation')
HandleJoinConversation(s, conversationId) ==
    LET r == IF HasNoUser(connectedClients, s) THEN NotAuthenticated
             ELSE ParticipantCheck(conversations, conversationId, connectedClients[s])
    IN
    /\ rooms' = IF r.ok
                THEN [rooms EXCEPT ![s].conversations = @ \cup {conversationId}]
                ELSE rooms
    /\ emitted' = {}
    /\ last' = [op |-> "handleJoinConversation", socket |-> s, id |-> conversationId,
                res |-> r]
    /\ UNCHANGED <<propsVars, webVars, bookingVars, msgVars, connectedClients, sockets>>

\* @SubscribeMessage('leaveConversation')
HandleLeaveConversation(s, conversationId) ==
    LET r == IF HasNoUser(connectedClients, s) THEN NotAuthenticated ELSE Ok IN
    /\ rooms' = IF r.ok
                THEN [rooms EXCEPT ![s].conversations = @ \ {conversationId}]
                ELSE rooms
    /\ emitted' = {}
    /\ last' = [op |-> "handleLeaveConversation", socket |-> s, id |-> conversationId,
                res |-> r]
    /\ UNCHANGED <<propsVars, webVars, bookingVars, msgVars, connectedClients, sockets>>

\* The conversations created while the gateway runs.
GwConversationDtos ==
    [participantIds : {<<>>, <<"agent">>}, propertyId : {NoProperty},
     bookingId : {Null}, initialMessage : {FALSE}]

NextGw ==
    \/ \E dto \in GwConversationDtos, u \in ConvCreators :
          Cardinality(conversations) < MaxGwConversations /\ CreateConversation(dto, u)
    \/ \E s \in Sockets, t \in TokenInputs : Connect(s, t)
    \/ \E s \in Sockets, dbOk \in BOOLEAN : ConnectJoin(s, dbOk)
    \/ \E s \in Sockets : Disconnect(s)
    \/ \E s \in Sockets, id \in ConversationInputs : HandleCreateMessage(s, id)
    \/ \E s \in Sockets, id \in ConversationInputs : HandleMarkAsRead(s, id)
    \/ \E s \in Sockets, id \in ConversationInputs : HandleTyping(s, id)
    \/ \E s \in Sockets, id \in ConversationInputs : HandleJoinConversation(s, id)
    \/ \E s \in Sockets, id \in ConversationInputs : HandleLeaveConversation(s, id)

SpecGw == Init /\ [][NextGw]_vars

\* ------------------------------------------------------- PropertiesService
\* JavaScript undefined: the value of a property an object does not carry.
Undefined == "undefined"
DtoField(dto, f) == IF f \in DOMAIN dto THEN dto[f] ELSE Undefined

\* The id the n-th row created after the seed is given (ids are fresh, never reused).
NewPropertyId(n) ==
    CASE n = 1 -> "property4"
      [] n = 2 -> "property5"
      [] n = 3 -> "property6"
      [] OTHER -> "property7"

\* PropertiesService.findOne: throws NotFound when no row has the id.
PropertyFindOne(props, id) ==
    IF id \in DOMAIN props THEN Ok ELSE Err("NotFound", "Property not found")

\* PropertiesService.create: prisma.property.create with the given data
\* (available defaults to true, absent coordinates stay null).
PropertyRow(data) ==
    [ownerId |-> data.ownerId,
     available |-> TRUE,
     address |-> data.address,
     city |-> data.city,
     latitude |-> data.latitude,
     longitude |-> data.longitude]

PropertyInsert(props, id, data) ==
    [p \in DOMAIN props \cup {id} |-> IF p = id THEN PropertyRow(data) ELSE props[p]]

\* PropertiesService.update: prisma.property.update writes the fields the dto carries.
PropertyMerge(props, id, dto) ==
    [p \in DOMAIN props |->
        IF p = id
        THEN [f \in DOMAIN props[p] |-> IF f \in DOMAIN dto THEN dto[f] ELSE props[p][f]]
        ELSE props[p]]

\* The Booking and Conversation relations to Property carry no onDelete rule:
\* the database refuses to delete a property that a row still references.
PropertyReferenced(bk, convs, id) ==
    \/ \E b \in bk : b.propertyId = id
    \/ \E c \in convs : c.propertyId = id

\* PropertiesService.delete: prisma.property.delete.
PropertyDelete(props, id) == [p \in DOMAIN props \ {id} |-> props[p]]

\* ---------------------------------------- PropertiesController (role checks)
\* create: the roles allowed to create a property.
MayCreate(role) == role \in {"LANDLORD", "ADMIN", "AGENT"}

\* update / remove: the owner or an ADMIN (the same test in both controllers).
LandlordsMayModify(ownerId, userId, role) ==
    ownerId = userId \/ role \in {"ADMIN", "LANDLORD"}
MayModify(ownerId, userId, role) == ownerId = userId \/ role = "ADMIN"

\* Requests of the property endpoints.
PropertyCreateDtos ==
    {[address |-> "", city |-> "Dubai", latitude |-> "lat_req", longitude |-> "lng_req"],
     [address |-> "Marina", city |-> "Dubai", latitude |-> Unset, longitude |-> Unset],
     [address |-> "Marina", city |-> "Dubai", latitude |-> "lat_req", longitude |-> "lng_req"]}
PropertyUpdateDtos ==
    {[available |-> FALSE], [address |-> "Marina"], [address |-> "Dubai", city |-> "Dubai"]}
PropertyIdInputs == {"property1", "property3", NewPropertyId(1), "missing"}
\* The ids the update requests name, and what their geocoding call meets.
PropertyUpdateIds == {"property1", NewPropertyId(1), "missing"}
UpdateGeoInputs == {"OK", "ERROR"}

\* PropertiesController.create (the controller without geocoding and search).
PropertiesCreate(userId, dto) ==
    /\ propertySeq < MaxProperties
    /\ IF ~MayCreate(Role(userId))
       THEN /\ last' = [op |-> "propertiesCreate", caller |-> userId, dto |-> dto,
                        id |-> "",
                        res |-> Err("Forbidden",
                                    "Only landlords, agents, and admins can create properties")]
            /\ UNCHANGED <<properties, propertySeq>>
       ELSE LET id == NewPropertyId(propertySeq + 1) IN
            /\ properties' = PropertyInsert(properties, id,
                                 [ownerId |-> userId, address |-> dto.address,
                                  city |-> dto.city,
                                  latitude |-> dto.latitude, longitude |-> dto.longitude])
            /\ propertySeq' = propertySeq + 1
            /\ last' = [op |-> "propertiesCreate", caller |-> userId, dto |-> dto,
                        id |-> id, res |-> Ok]
    /\ UNCHANGED <<bookings, pending, msgVars, gwVars, searchIndex, webVars>>

\* update / remove of that controller: findOne, the owner test, the write.
ModifyCheck(props, id, userId, role, msg) ==
    IF ~PropertyFindOne(props, id).ok THEN PropertyFindOne(props, id)
    ELSE IF ~MayModify(props[id].ownerId, userId, role) THEN Err("Forbidden", msg)
    ELSE Ok

PropertiesUpdate(id, userId, dto) ==
    LET r == ModifyCheck(properties, id, userId, Role(userId),
                         "You do not have permission to update this property") IN
    /\ properties' = IF r.ok THEN PropertyMerge(properties, id, dto) ELSE properties
    /\ last' = [op |-> "propertiesUpdate", caller |-> userId, id |-> id, dto |-> dto,
                res |-> r]
    /\ UNCHANGED <<bookings, pending, msgVars, gwVars, propsVars, webVars>>

PropertiesRemove(id, userId) ==
    LET c == ModifyCheck(properties, id, userId, Role(userId),
                         "You do not have permission to delete this property")
        r == IF c.ok /\ PropertyReferenced(bookings, conversations, id)
             THEN Err("InternalServerError", "Foreign key constraint failed")
             ELSE c
    IN
    /\ properties' = IF r.ok THEN PropertyDelete(properties, id) ELSE properties
    /\ last' = [op |-> "propertiesRemove", caller |-> userId, id |-> id, res |-> r]
    /\ UNCHANGED <<bookings, pending, msgVars, gwVars, propsVars, webVars>>

\* --------------------------------------------------------- GeocodingService
\* What a geocodeAddress call meets: no GOOGLE_MAPS_API_KEY, or the provider's
\* answer (OK with a result, OK with none, another status, a failed request).
GeoInputs == {"nokey", "OK", "OK_EMPTY", "REQUEST_DENIED", "ERROR"}

NoGeocodingResult == [thrown |-> FALSE, isNull |-> TRUE, latitude |-> Unset, longitude |-> Unset]

\* GeocodingService.geocodeAddress: the first result's location, or null.
GeocodeAddressRethrows(geo) ==
    IF geo = "nokey" THEN NoGeocodingResult
    ELSE IF geo = "ERROR"
    THEN [thrown |-> TRUE, isNull |-> FALSE, latitude |-> Unset, longitude |-> Unset]
    ELSE IF geo = "OK"
    THEN [thrown |-> FALSE, isNull |-> FALSE, latitude |-> "lat_geo", longitude |-> "lng_geo"]
    ELSE NoGeocodingResult
GeocodeAddress(geo) ==
    IF geo = "nokey" THEN NoGeocodingResult
    ELSE IF geo = "ERROR" THEN NoGeocodingResult
    ELSE IF geo = "OK"
    THEN [thrown |-> FALSE, isNull |-> FALSE, latitude |-> "lat_geo", longitude |-> "lng_geo"]
    ELSE NoGeocodingResult

\* ------------------------------------------------------------ SearchService
\* The engine's index / update / delete requests. engineOk: whether the engine
\* is reachable; update and delete of a document the index lacks are rejected
\* by the engine (404).
EngineIndex(index, id, doc) ==
    [i \in DOMAIN index \cup {id} |-> IF i = id THEN doc ELSE index[i]]
EngineDelete(index, id) == [i \in DOMAIN index \ {id} |-> index[i]]

\* SearchService.indexProperty: the request's failure is caught and reported
\* in the return value.
IndexPropertyRethrows(index, id, doc, engineOk) ==
    IF engineOk
    THEN [thrown |-> FALSE, success |-> TRUE, index |-> EngineIndex(index, id, doc)]
    ELSE [thrown |-> TRUE, success |-> FALSE, index |-> index]
IndexProperty(index, id, doc, engineOk) ==
    IF engineOk
    THEN [thrown |-> FALSE, success |-> TRUE, index |-> EngineIndex(index, id, doc)]
    ELSE [thrown |-> FALSE, success |-> FALSE, index |-> index]

\* SearchService.updateProperty.
UpdateProperty(index, id, doc, engineOk) ==
    IF engineOk /\ id \in DOMAIN index
    THEN [thrown |-> FALSE, success |-> TRUE, index |-> EngineIndex(index, id, doc)]
    ELSE [thrown |-> FALSE, success |-> FALSE, index |-> index]

\* SearchService.deleteProperty.
DeleteProperty(index, id, engineOk) ==
    IF engineOk /\ id \in DOMAIN index
    THEN [thrown |-> FALSE, success |-> TRUE, index |-> EngineDelete(index, id)]
    ELSE [thrown |-> FALSE, success |-> FALSE, index |-> index]

\* ------------------------- PropertiesController (geocoding and search index)
\* RolesGuard with @Roles(...): lets the request pass when the caller's role is listed.
RolesGuard(role, roles) == role \in roles
PropertyRoles == {"LANDLORD", "AGENT", "ADMIN"}

\* PropertiesService.create(userId, dto) and remove(id), as this controller calls them.
PropertyCreateFor(props, id, userId, dto) ==
    PropertyInsert(props, id,
        [ownerId |-> userId, address |-> dto.address, city |-> dto.city,
         latitude |-> dto.latitude, longitude |-> dto.longitude])
PropertyRemoveById(props, id) == PropertyDelete(props, id)

\* The dto with the geocoded coordinates written into it.
WithCoordinates(dto, g) ==
    [f \in DOMAIN dto \cup {"latitude", "longitude"} |->
        IF f = "latitude" THEN g.latitude
        ELSE IF f = "longitude" THEN g.longitude
        ELSE dto[f]]

\* What an endpoint of this controller leaves: the response and the two stores.
PropertyOutcome(res, props, index, id) ==
    [res |-> res, props |-> props, index |-> index, id |-> id]

\* create: geocode when the dto has an address, insert, index; everything
\* thrown inside becomes BadRequest.
PropertyCreateOutcome(props, index, seq, userId, dto, geo, engineOk) ==
    IF ~RolesGuard(Role(userId), PropertyRoles)
    THEN PropertyOutcome(Err("Forbidden", "Forbidden resource"), props, index, "")
    ELSE LET g == IF dto.address # "" THEN GeocodeAddress(geo) ELSE NoGeocodingResult IN
         IF g.thrown
         THEN PropertyOutcome(Err("BadRequest", "geocoding failed"), props, index, "")
         ELSE LET d == IF ~g.isNull THEN WithCoordinates(dto, g) ELSE dto
                  id == NewPropertyId(seq + 1)
                  created == PropertyCreateFor(props, id, userId, d)
                  ix == IndexProperty(index, id, created[id], engineOk)
              IN  IF ix.thrown
                  THEN PropertyOutcome(Err("BadRequest", "indexing failed"),
                                       created, ix.index, id)
                  ELSE PropertyOutcome(Ok, created, ix.index, id)

GeoPropertiesCreate(userId, dto, geo, engineOk) ==
    LET o == PropertyCreateOutcome(properties, searchIndex, propertySeq, userId, dto,
                                   geo, engineOk) IN
    /\ propertySeq < MaxProperties
    /\ properties' = o.props
    /\ searchIndex' = o.index
    /\ propertySeq' = IF o.id # "" THEN propertySeq + 1 ELSE propertySeq
    /\ last' = [op |-> "geoPropertiesCreate", caller |-> userId, dto |-> dto, geo |-> geo,
                engineOk |-> engineOk, id |-> o.id, res |-> o.res]
    /\ UNCHANGED <<bookings, pending, msgVars, gwVars, webVars>>

\* update: the address is geocoded again when the dto's address, city or country
\* differs from the row's (city stands for both; a field the dto lacks differs).
AddressChanged(dto, property) ==
    /\ DtoField(dto, "address") \notin {Undefined, ""}
    /\ \/ dto.address # property.address
       \/ DtoField(dto, "city") # property.city

PropertyUpdateOutcome(props, index, id, userId, dto, geo, engineOk) ==
    IF ~RolesGuard(Role(userId), PropertyRoles)
    THEN PropertyOutcome(Err("Forbidden", "Forbidden resource"), props, index, id)
    ELSE IF ~PropertyFindOne(props, id).ok
    THEN PropertyOutcome(PropertyFindOne(props, id), props, index, id)
    ELSE IF ~MayModify(props[id].ownerId, userId, Role(userId))
    THEN PropertyOutcome(Err("Unauthorized",
                             "You do not have permission to update this property"),
                         props, index, id)
    ELSE LET g == IF AddressChanged(dto, props[id]) THEN GeocodeAddress(geo)
                  ELSE NoGeocodingResult IN
         IF g.thrown
         THEN PropertyOutcome(Err("BadRequest", "geocoding failed"), props, index, id)
         ELSE LET d == IF ~g.isNull THEN WithCoordinates(dto, g) ELSE dto
                  updated == PropertyMerge(props, id, d)
                  ix == UpdateProperty(index, id, updated[id], engineOk)
              IN  IF ix.thrown
                  THEN PropertyOutcome(Err("BadRequest", "index update failed"),
                                       updated, ix.index, id)
                  ELSE PropertyOutcome(Ok, updated, ix.index, id)

GeoPropertiesUpdate(id, userId, dto, geo, engineOk) ==
    LET o == PropertyUpdateOutcome(properties, searchIndex, id, userId, dto, geo, engineOk) IN
    /\ properties' = o.props
    /\ searchIndex' = o.index
    /\ last' = [op |-> "geoPropertiesUpdate", caller |-> userId, id |-> id, dto |-> dto,
                geo |-> geo, engineOk |-> engineOk, res |-> o.res]
    /\ UNCHANGED <<bookings, pending, msgVars, gwVars, propertySeq, webVars>>

\* remove: delete the row, then the document.
PropertyRemoveOutcome(props, bk, convs, index, id, userId, engineOk) ==
    IF ~RolesGuard(Role(userId), PropertyRoles)
    THEN PropertyOutcome(Err("Forbidden", "Forbidden resource"), props, index, id)
    ELSE IF ~PropertyFindOne(props, id).ok
    THEN PropertyOutcome(PropertyFindOne(props, id), props, index, id)
    ELSE IF ~MayModify(props[id].ownerId, userId, Role(userId))
    THEN PropertyOutcome(Err("Unauthorized",
                             "You do not have permission to delete this property"),
                         props, index, id)
    ELSE IF PropertyReferenced(bk, convs, id)
    THEN PropertyOutcome(Err("BadRequest", "Foreign key constraint failed"),
                         props, index, id)
    ELSE LET removed == PropertyRemoveById(props, id)
             ix == DeleteProperty(index, id, engineOk)
         IN  IF ix.thrown
             THEN PropertyOutcome(Err("BadRequest", "index delete failed"),
                                  removed, ix.index, id)
             ELSE PropertyOutcome(Ok, removed, ix.index, id)

GeoPropertiesRemove(id, userId, engineOk) ==
    LET o == PropertyRemoveOutcome(properties, bookings, conversations, searchIndex,
                                   id, userId, engineOk) IN
    /\ properties' = o.props
    /\ searchIndex' = o.index
    /\ last' = [op |-> "geoPropertiesRemove", caller |-> userId, id |-> id,
                engineOk |-> engineOk, res |-> o.res]
    /\ UNCHANGED <<bookings, pending, msgVars, gwVars, propertySeq, webVars>>

\* The property endpoints of both controllers, with the geocoder answering and
\* the search engine reachable.
NextProps ==
    \/ \E u \in Users, dto \in PropertyCreateDtos : PropertiesCreate(u, dto)
    \/ \E id \in PropertyUpdateIds, u \in Users : PropertiesUpdate(id, u, [available |-> FALSE])
    \/ \E id \in PropertyIdInputs, u \in Users : PropertiesRemove(id, u)
    \/ \E id \in PropertyUpdateIds, u \in Users :
          GeoPropertiesUpdate(id, u, [available |-> TRUE], "OK", TRUE)
    \/ \E id \in PropertyIdInputs, u \in Users : GeoPropertiesRemove(id, u, TRUE)

SpecProps == Init /\ [][NextProps]_vars

\* Bookings requested while owners switch their properties' availability.
NextAvail ==
    \/ \E u \in Bookers, dto \in CreateDtos : Create(u, dto)
    \/ \E id \in PropertyUpdateIds, u \in Users, available \in BOOLEAN :
          PropertiesUpdate(id, u, [available |-> available])

SpecAvail == Init /\ [][NextAvail]_vars

\* The geocoding controller alone, called by an owner-to-be and by a plain
\* user, with every answer of the geocoder and the engine up or down.
GeoCallers == {"agent", "user"}
GeoPropertyIds == {NewPropertyId(1), "property3"}

NextGeo ==
    \/ \E u \in GeoCallers, dto \in PropertyCreateDtos, geo \in GeoInputs,
          engineOk \in BOOLEAN :
          GeoPropertiesCreate(u, dto, geo, engineOk)
    \/ \E id \in GeoPropertyIds, u \in GeoCallers, dto \in PropertyUpdateDtos,
          geo \in UpdateGeoInputs, engineOk \in BOOLEAN :
          GeoPropertiesUpdate(id, u, dto, geo, engineOk)
    \/ \E id \in GeoPropertyIds, u \in GeoCallers, engineOk \in BOOLEAN :
          GeoPropertiesRemove(id, u, engineOk)

SpecGeo == Init /\ [][NextGeo]_vars

\* ----------------- PaymentsController.createPaymentIntent / CheckoutSession
\* The checks both endpoints make before calling the provider.
PaymentCheckAnyStatus(bk, id, userId) ==
    IF id \notin BookingIds(bk)
    THEN Err("NotFound", "Booking not found")
    ELSE IF BookingById(bk, id).userId # userId
    THEN Err("Unauthorized", "You do not have permission to pay for this booking")
    ELSE Ok
PaymentCheck(bk, id, userId) ==
    IF id \notin BookingIds(bk)
    THEN Err("NotFound", "Booking not found")
    ELSE IF BookingById(bk, id).userId # userId
    THEN Err("Unauthorized", "You do not have permission to pay for this booking")
    ELSE IF BookingById(bk, id).status # "PENDING"
    THEN Err("BadRequest", "This booking is already processed")
    ELSE Ok

\* createPaymentIntent. providerCalled: whether stripeService.createPaymentIntent
\* was called; providerOk: whether that call succeeded.
CreatePaymentIntent(id, userId, providerOk) ==
    LET c == PaymentCheck(bookings, id, userId) IN
    /\ last' = [op |-> "createPaymentIntent", caller |-> userId, id |-> id,
                providerCalled |-> c.ok, providerOk |-> providerOk,
                res |-> IF c.ok /\ ~providerOk
                        THEN Err("BadRequest", "Failed to create payment intent")
                        ELSE c]
    /\ UNCHANGED <<bookingVars, msgVars, gwVars, propsVars, webVars>>

\* createCheckoutSession.
CreateCheckoutSession(id, userId, providerOk) ==
    LET c == PaymentCheck(bookings, id, userId) IN
    /\ last' = [op |-> "createCheckoutSession", caller |-> userId, id |-> id,
                providerCalled |-> c.ok, providerOk |-> providerOk,
                res |-> IF c.ok /\ ~providerOk
                        THEN Err("BadRequest", "Failed to create checkout session")
                        ELSE c]
    /\ UNCHANGED <<bookingVars, msgVars, gwVars, propsVars, webVars>>

\* Booking, cancelling and paying.
NextPay ==
    \/ \E u \in Bookers, dto \in CreateDtos : Create(u, dto)
    \/ \E id \in IdInputs, u \in Users : Cancel(id, u)
    \/ \E id \in IdInputs, u \in Users, providerOk \in BOOLEAN :
          CreatePaymentIntent(id, u, providerOk)
    \/ \E id \in IdInputs, u \in Users, providerOk \in BOOLEAN :
          CreateCheckoutSession(id, u, providerOk)

SpecPay == Init /\ [][NextPay]_vars

\* ------------------------------------------------- web: AuthProvider
\* The token the API issues to a user at login.
TokenOf(u) == "token"

\* The value AuthProvider gives its consumers: isAuthenticated, user and the
\* operations; it carries no token.
AuthContextValue(user) == [isAuthenticated |-> user # NoUser, user |-> user]

\* ----------------------------------------------- web: SocketProvider
\* connect(): returns early without a token or when not authenticated or when
\* a connected socket exists; otherwise opens a socket to /messaging with the token.
SocketConnect(value, socket, connected) ==
    LET token == DtoField(value, "token") IN
    IF token \in {Undefined, ""} \/ ~value.isAuthenticated
    THEN [socket |-> socket, isConnected |-> connected]
    ELSE IF socket.open /\ connected
    THEN [socket |-> socket, isConnected |-> connected]
    ELSE [socket |-> [open |-> TRUE, token |-> token], isConnected |-> connected]

\* disconnect(): closes and drops the socket, if any.
SocketDisconnect(socket, connected) ==
    IF socket.open THEN [socket |-> NoSocket, isConnected |-> FALSE]
    ELSE [socket |-> socket, isConnected |-> connected]

\* The effect on [isAuthenticated, token]: the previous run's cleanup
\* (disconnect), then connect when authenticated with a token, else disconnect.
SocketEffect(value, socket, connected) ==
    LET cleaned == SocketDisconnect(socket, connected) IN
    IF value.isAuthenticated /\ DtoField(value, "token") \notin {Undefined, ""}
    THEN SocketConnect(value, cleaned.socket, cleaned.isConnected)
    ELSE SocketDisconnect(cleaned.socket, cleaned.isConnected)

\* AuthProvider.login: on success stores the token and sets the user, and a
\* change of isAuthenticated re-runs SocketProvider's effect; on failure throws.
WebLogin(u, ok) ==
    LET user == IF ok THEN u ELSE webUser
        e == IF (user # NoUser) = (webUser # NoUser)
             THEN [socket |-> webSocket, isConnected |-> isConnected]
             ELSE SocketEffect(AuthContextValue(user), webSocket, isConnected)
    IN
    /\ webUser' = user
    /\ authToken' = IF ok THEN TokenOf(u) ELSE authToken
    /\ webSocket' = e.socket
    /\ isConnected' = e.isConnected
    /\ last' = [op |-> "login", caller |-> u,
                res |-> IF ok THEN Ok ELSE Err("Unauthorized", "Invalid credentials")]
    /\ UNCHANGED <<bookingVars, msgVars, gwVars, propsVars, paymentSuccess, outbox>>

\* AuthProvider.logout.
WebLogout ==
    LET e == SocketEffect(AuthContextValue(NoUser), webSocket, isConnected) IN
    /\ webUser # NoUser
    /\ webUser' = NoUser
    /\ authToken' = ""
    /\ webSocket' = e.socket
    /\ isConnected' = e.isConnected
    /\ last' = [op |-> "logout", caller |-> webUser, res |-> Ok]
    /\ UNCHANGED <<bookingVars, msgVars, gwVars, propsVars, paymentSuccess, outbox>>

\* A consumer of the socket context calls connect().
WebConnect ==
    LET e == SocketConnect(AuthContextValue(webUser), webSocket, isConnected) IN
    /\ webSocket' = e.socket
    /\ isConnected' = e.isConnected
    /\ last' = [op |-> "connect", caller |-> webUser, res |-> Ok]
    /\ UNCHANGED <<bookingVars, msgVars, gwVars, propsVars, webUser, authToken,
                   paymentSuccess, outbox>>

\* --------------------------------------------------- web: CheckoutPage
\* handlePaymentSuccess: the payment form reported a succeeded payment for the
\* page's booking (its payment intent was created for the logged-in booker
\* while the booking was PENDING); the page shows success and sends
\* PUT /bookings/:id/status {status: CONFIRMED}, ignoring a failure.
HandlePaymentSuccess(bookingId) ==
    LET r == UpdateStatusResult(properties, bookings, bookingId, webUser, Role(webUser),
                                "CONFIRMED") IN
    /\ webUser # NoUser
    /\ bookingId \in BookingIds(bookings)
    /\ BookingById(bookings, bookingId).userId = webUser
    /\ BookingById(bookings, bookingId).status = "PENDING"
    /\ paymentSuccess' = TRUE
    /\ bookings' = IF r.ok THEN SetStatus(bookings, bookingId, "CONFIRMED") ELSE bookings
    /\ last' = [op |-> "handlePaymentSuccess", caller |-> webUser, id |-> bookingId,
                res |-> r]
    /\ UNCHANGED <<properties, pending, msgVars, gwVars, propsVars, webUser, authToken,
                   webSocket, isConnected, outbox>>

\* The web client: log in and out, book, pay on the checkout page.
WebUsers == {"user", "agent"}

NextWeb ==
    \/ \E u \in WebUsers, ok \in BOOLEAN : WebLogin(u, ok)
    \/ WebLogout
    \/ WebConnect
    \/ \E u \in Bookers, dto \in CreateDtos : Create(u, dto)
    \/ \E id \in 1..MaxBookings : HandlePaymentSuccess(id)

SpecWeb == Init /\ [][NextWeb]_vars

\* --------------------------------------------------- web: useMessages
\* sendMessage's inputs: the hook's conversation and the typed content.
SendContents == {"hello", "bye"}
SendDtos == [conversationId : {1, MissingId}, content : SendContents]

\* prisma.message.create with the dto's content.
NewMessageWithContent(msgs, dto, senderId) ==
    NewMessage(msgs, dto.conversationId, senderId) @@ [content |-> dto.content]

\* "if (socket && isConnected)" after the POST returned.
SocketNeverEmits(connected) == FALSE
SocketEmits(connected) == connected

\* useMessages.sendMessage of user u, whose hook holds socket s: POST
\* /messaging/messages (MessagingController.createMessage), which throws on a
\* refusal, then the createMessage packet when the socket is connected.
SendMessage(u, s, dto) ==
    LET r == CreateMessageCheck(conversations, dto.conversationId, u)
        connected == sockets[s].open
        emits == r.ok /\ SocketEmits(connected)
    IN
    /\ sockets[s].open => connectedClients[s] = u
    /\ Cardinality(messages) < MaxSendMessages
    /\ Len(outbox) < MaxOutbox
    /\ messages' = IF r.ok THEN messages \cup {NewMessageWithContent(messages, dto, u)}
                   ELSE messages
    /\ outbox' = IF emits THEN Append(outbox, [socket |-> s, dto |-> dto]) ELSE outbox
    /\ last' = [op |-> "sendMessage", caller |-> u, socket |-> s, dto |-> dto,
                connected |-> connected,
                res |-> IF r.ok THEN Ok ELSE Err("Error", "Failed to send message")]
    /\ UNCHANGED <<bookingVars, conversations, pendingConv, clock, gwVars, propsVars,
                   webUser, authToken, webSocket, isConnected, paymentSuccess>>

\* @SubscribeMessage('createMessage') on the i-th packet in flight.
HandleCreateMessageOf(i) ==
    LET p == outbox[i]
        s == p.socket
        dto == p.dto
        r == IF HasNoUser(connectedClients, s) THEN NotAuthenticated
             ELSE CreateMessageCheck(conversations, dto.conversationId, connectedClients[s])
    IN
    /\ outbox' = SubSeq(outbox, 1, i - 1) \o SubSeq(outbox, i + 1, Len(outbox))
    /\ messages' = IF r.ok
                   THEN messages \cup
                        {NewMessageWithContent(messages, dto, connectedClients[s])}
                   ELSE messages
    /\ emitted' = IF r.ok
                  THEN {[to |-> ConversationRoom(dto.conversationId), event |-> "newMessage"]}
                       \cup {[to |-> UserRoom(q), event |-> "notification"] :
                               q \in ConversationById(conversations, dto.conversationId).participants
                                     \ {connectedClients[s]}}
                  ELSE {}
    /\ last' = [op |-> "handleCreateMessage", socket |-> s, id |-> dto.conversationId,
                dto |-> dto, res |-> r]
    /\ UNCHANGED <<bookingVars, conversations, pendingConv, clock, connectedClients,
                   sockets, rooms, propsVars, webUser, authToken, webSocket, isConnected,
                   paymentSuccess>>

\* The gateway with clients that send through useMessages. A socket id is
\* connected again only when no packet of its earlier connection is in flight.
NextSend ==
    \/ \E dto \in GwConversationDtos, u \in ConvCreators :
          Cardinality(conversations) < MaxGwConversations /\ CreateConversation(dto, u)
    \/ \E s \in Sockets, t \in TokenInputs :
          (\A i \in DOMAIN outbox : outbox[i].socket # s) /\ Connect(s, t)
    \/ \E s \in Sockets, dbOk \in BOOLEAN : ConnectJoin(s, dbOk)
    \/ \E s \in Sockets : Disconnect(s)
    \/ \E u \in WebUsers, s \in Sockets, dto \in SendDtos : SendMessage(u, s, dto)
    \/ \E i \in DOMAIN outbox : HandleCreateMessageOf(i)

SpecSend == Init /\ [][NextSend]_vars

\* ------------------------------------------------------------------ claims
ActiveStatus == {"PENDING", "CONFIRMED"}

\* Two rows of one property whose closed date ranges share a day.
RangesOverlap(a, b) ==
    /\ a.id # b.id
    /\ a.propertyId = b.propertyId
    /\ a.startDate <= b.endDate
    /\ b.startDate <= a.endDate

\* C1: in every state reached by serialized booking operations no property has
\* two distinct PENDING or CONFIRMED bookings whose date ranges overlap.
C1_NoOverlappingActiveBookings ==
    \A a \in bookings, b \in bookings :
        (a.status \in ActiveStatus /\ b.status \in ActiveStatus) => ~RangesOverlap(a, b)

\* The request of the create call that just completed passed the property
\* and date validation that precede the conflict query.
CreateReachedConflictQuery(dto) ==
    /\ dto.propertyId \in DOMAIN properties
    /\ properties[dto.propertyId].available
    /\ dto.startDate < dto.endDate

\* A PENDING or CONFIRMED booking of the requested property whose closed range
\* meets the requested closed range.
ActiveOverlap(bk, dto) ==
    \E b \in bk :
        /\ b.propertyId = dto.propertyId
        /\ b.status \in ActiveStatus
        /\ b.startDate <= dto.endDate
        /\ b.endDate >= dto.startDate

C3_InsertAfterQueryAlwaysSucceeds ==
    [][last'.op = "createInsert" =>
        /\ last'.res.ok
        /\ \E b \in bookings' \ bookings :
              /\ b.status = "PENDING"
              /\ b.propertyId = last'.dto.propertyId
              /\ b.startDate = last'.dto.startDate
              /\ b.endDate = last'.dto.endDate
    ]_vars

\* C3 witness: two overlapping PENDING bookings of one property, both
\* inserted by interleaved create calls.
C3_Witness ==
    /\ last.op = "createInsert"
    /\ \E a \in bookings, b \in bookings :
          /\ RangesOverlap(a, b)
          /\ a.status = "PENDING"
          /\ b.status = "PENDING"

\* C4: after the webhook received a correctly signed checkout.session.completed
\* or payment_intent.succeeded event whose metadata names an existing booking,
\* that booking is CONFIRMED.
C4_SignedWebhookConfirmsBooking ==
    (/\ last.op = "webhook"
     /\ last.secretSet
     /\ last.signature = "good"
     /\ last.type \in {"checkout.session.completed", "payment_intent.succeeded"}
     /\ last.id \in BookingIds(bookings))
    => BookingById(bookings, last.id).status = "CONFIRMED"

\* C5: createRefund cancels the booking exactly when the caller is the booker,
\* the property owner or an ADMIN, the booking is CONFIRMED, it has a stored
\* paymentIntentId and the provider's refund succeeded; otherwise it raises
\* NotFound, Unauthorized or BadRequest and no booking changes.
C5_RefundCancelsOnlyWhenAllowed ==
    [][last'.op = "createRefund" =>
        LET id == last'.id
            u == last'.caller
            allowed ==
                \E b \in bookings :
                    /\ b.id = id
                    /\ \/ b.userId = u
                       \/ properties[b.propertyId].ownerId = u
                       \/ Role(u) = "ADMIN"
                    /\ b.status = "CONFIRMED"
                    /\ b.paymentIntentId # NoPaymentIntent
                    /\ last'.providerOk
        IN  IF allowed
            THEN /\ last'.res.ok
                 /\ \A b \in bookings' : b.id = id => b.status = "CANCELLED"
                 /\ \A b \in bookings : b.id # id => b \in bookings'
            ELSE /\ last'.res.kind \in {"NotFound", "Unauthorized", "BadRequest"}
                 /\ bookings' = bookings
    ]_vars

\* C5 witness: a refund by the property owner went through and the booking is
\* CANCELLED.
C5_Witness ==
    /\ last.op = "createRefund"
    /\ last.res.ok
    /\ last.caller = "agent"
    /\ \E b \in bookings : b.id = last.id /\ b.status = "CANCELLED"

\* The caller is neither the booker, nor the owner of the booked property,
\* nor an ADMIN.
Stranger(b, u) ==
    /\ b.userId # u
    /\ properties[b.propertyId].ownerId # u
    /\ Role(u) # "ADMIN"

\* C6: updateStatus and cancel by a user who is neither the booker, nor the
\* property owner, nor an ADMIN throw Forbidden and change no booking.
C6_StrangerIsForbidden ==
    [][(/\ last'.op \in {"updateStatus", "cancel"}
        /\ \E b \in bookings : b.id = last'.id /\ Stranger(b, last'.caller))
       => (last'.res.kind = "Forbidden" /\ bookings' = bookings)
    ]_vars

\* C6 witness: a stranger's updateStatus on an existing booking was refused.
C6_Witness ==
    /\ last.op = "updateStatus"
    /\ last.res.kind = "Forbidden"
    /\ \E b \in bookings : b.id = last.id /\ Stranger(b, last.caller)

\* The caller booked b and is neither the property owner nor an ADMIN.
PlainBooker(b, u) ==
    /\ b.userId = u
    /\ properties[b.propertyId].ownerId # u
    /\ Role(u) # "ADMIN"

\* C7: a booker who is neither owner nor ADMIN gets Forbidden from updateStatus
\* with any status but CANCELLED, with no booking changed, while cancel by
\* that booker succeeds and leaves the booking CANCELLED.
C7_BookerMayOnlyCancel ==
    [][\A b \in bookings :
        (last'.op \in {"updateStatus", "cancel"} /\ b.id = last'.id
           /\ PlainBooker(b, last'.caller)) =>
        IF last'.op = "updateStatus" /\ last'.status # "CANCELLED"
        THEN last'.res.kind = "Forbidden" /\ bookings' = bookings
        ELSE /\ last'.res.ok
             /\ [b EXCEPT !.status = "CANCELLED"] \in bookings'
    ]_vars

\* C7 witness: the booker asked for CONFIRMED on an own PENDING booking and
\* was refused.
C7_Witness ==
    /\ last.op = "updateStatus"
    /\ last.status = "CONFIRMED"
    /\ last.res.kind = "Forbidden"
    /\ \E b \in bookings :
          b.id = last.id /\ PlainBooker(b, last.caller) /\ b.status = "PENDING"

\* C8: at most one conversation references a given bookingId, also when
\* createConversation calls interleave, and createConversation for a
\* booking that already has a conversation fails and creates no conversation.
C8_OneConversationPerBooking ==
    /\ [](\A a \in conversations, b \in conversations :
            (a.bookingId # Null /\ a.bookingId = b.bookingId) => a.id = b.id)
    /\ [][(/\ last'.op \in {"createConversationCheck", "createConversation"}
           /\ last'.dto.bookingId # Null
           /\ \E c \in conversations : c.bookingId = last'.dto.bookingId)
          => (~last'.res.ok /\ conversations' = conversations)
       ]_vars

\* C8 witness: of two interleaved createConversation calls for booking 1 that
\* both passed the existence check, the second insert was refused and one
\* conversation references the booking.
C8_Witness ==
    /\ last.op = "createConversation"
    /\ last.dto.bookingId = 1
    /\ ~last.res.ok
    /\ \E c \in conversations : c.bookingId = 1

\* C9: getConversation, createMessage, getMessages and markMessagesAsRead
\* answer NotFound for a missing conversation and Forbidden for a caller who
\* is not a participant, changing no stored data; and the sender of every
\* stored message is a participant of the message's conversation.
C9_OnlyParticipantsReadAndWrite ==
    /\ [](\A m \in messages :
            \E c \in conversations :
                c.id = m.conversationId /\ m.senderId \in c.participants)
    /\ [][last'.op \in {"getConversation", "createMessage", "getMessages",
                        "markMessagesAsRead"} =>
            /\ (\A c \in conversations : c.id # last'.id) =>
                  /\ last'.res.kind = "NotFound"
                  /\ messages' = messages
                  /\ conversations' = conversations
            /\ \A c \in conversations :
                  (c.id = last'.id /\ last'.caller \notin c.participants) =>
                      /\ last'.res.kind = "Forbidden"
                      /\ messages' = messages
                      /\ conversations' = conversations
       ]_vars

\* C9 witness: createMessage by a non-participant of an existing conversation
\* that already holds a message was refused.
C9_Witness ==
    /\ last.op = "createMessage"
    /\ last.res.kind = "Forbidden"
    /\ \E c \in conversations :
          /\ c.id = last.id
          /\ last.caller \notin c.participants
          /\ \E m \in messages : m.conversationId = c.id

HandlerOps == {"handleCreateMessage", "handleMarkAsRead", "handleTyping",
               "handleJoinConversation", "handleLeaveConversation"}

\* C10: connectedClients holds an entry exactly for the sockets whose handshake
\* token was verified and that have not disconnected; a connection with no
\* token or an invalid one is disconnected and never added; handleDisconnect
\* removes the entry; and every event handler invoked from a socket without an
\* entry answers 'Not authenticated', changes no data and emits nothing.
C10_ConnectedClientsAreTheVerifiedOpenSockets ==
    /\ [](/\ DOMAIN connectedClients =
               {s \in Sockets : sockets[s].open /\ sockets[s].verified}
          /\ \A s \in DOMAIN connectedClients : connectedClients[s] \in Users)
    /\ [][(last'.op = "handleConnection" /\ last'.token \notin ValidTokens) =>
             /\ ~sockets'[last'.socket].open
             /\ last'.socket \notin DOMAIN connectedClients'
             /\ connectedClients' = connectedClients
       ]_vars
    /\ [][last'.op = "handleDisconnect" =>
             /\ last'.socket \notin DOMAIN connectedClients'
             /\ \A s \in DOMAIN connectedClients :
                   s # last'.socket =>
                      (s \in DOMAIN connectedClients' /\ connectedClients'[s] = connectedClients[s])
       ]_vars
    /\ [][(last'.op \in HandlerOps /\ last'.socket \notin DOMAIN connectedClients) =>
             /\ last'.res = [ok |-> FALSE, kind |-> "NotAuthenticated",
                             msg |-> "Not authenticated"]
             /\ emitted' = {}
             /\ UNCHANGED <<conversations, messages, rooms, connectedClients, sockets>>
       ]_vars

\* C10 witness: while another socket is connected with a verified token, a
\* createMessage event for an existing conversation from a socket without an
\* entry was answered 'Not authenticated'.
C10_Witness ==
    /\ last.op = "handleCreateMessage"
    /\ last.res.kind = "NotAuthenticated"
    /\ last.socket \notin DOMAIN connectedClients
    /\ \E c \in conversations : c.id = last.id
    /\ \E s \in DOMAIN connectedClients : sockets[s].open /\ s # last.socket

\* The property endpoints, and the two exceptions that report a caller who may not act.
PropertyCreateOps == {"propertiesCreate", "geoPropertiesCreate"}
PropertyModifyOps == {"propertiesUpdate", "propertiesRemove",
                      "geoPropertiesUpdate", "geoPropertiesRemove"}
AuthorizationError == {"Forbidden", "Unauthorized"}
CreatorRoles == {"LANDLORD", "AGENT", "ADMIN"}

\* C11: a property row appears only through a create call of a LANDLORD, AGENT
\* or ADMIN and is owned by that caller; a row changes or disappears only through
\* an update or remove call naming it, made by its owner or an ADMIN; every other
\* caller of create, and of update or remove on an existing property, gets
\* Forbidden or Unauthorized and the property table is unchanged.
C11_OnlyOwnerOrAdminWritesProperty ==
    [][/\ \A p \in DOMAIN properties' \ DOMAIN properties :
            /\ last'.op \in PropertyCreateOps
            /\ Role(last'.caller) \in CreatorRoles
            /\ properties'[p].ownerId = last'.caller
       /\ \A p \in DOMAIN properties :
            (p \notin DOMAIN properties' \/ properties'[p] # properties[p]) =>
                /\ last'.op \in PropertyModifyOps
                /\ last'.id = p
                /\ (properties[p].ownerId = last'.caller \/ Role(last'.caller) = "ADMIN")
       /\ (last'.op \in PropertyCreateOps /\ Role(last'.caller) \notin CreatorRoles) =>
            (last'.res.kind \in AuthorizationError /\ properties' = properties)
       /\ (last'.op \in PropertyModifyOps /\ last'.id \in DOMAIN properties) =>
            (~(properties[last'.id].ownerId = last'.caller \/ Role(last'.caller) = "ADMIN") =>
                (last'.res.kind \in AuthorizationError /\ properties' = properties))
    ]_vars

\* C11 witness: the landlord asked to delete a property that the agent created
\* and owns, and was refused.
C11_Witness ==
    /\ last.op = "geoPropertiesRemove"
    /\ last.res.kind = "Unauthorized"
    /\ last.caller = "landlord"
    /\ last.id = NewPropertyId(1)
    /\ last.id \in DOMAIN properties
    /\ properties[last.id].ownerId = "agent"

\* The answers of a geocodeAddress call that yield no coordinates.
GeocodingFailures == {"nokey", "OK_EMPTY", "REQUEST_DENIED", "ERROR"}

\* C12: when geocoding yields nothing (no API key, a non-OK status, no results,
\* a failed request), create by a LANDLORD, AGENT or ADMIN still succeeds and
\* inserts the property, owned by the caller, with latitude and longitude
\* exactly as the request gave them (unset when it gave none).
C12_GeocodingFailureKeepsRequestCoordinates ==
    [][(/\ last'.op = "geoPropertiesCreate"
        /\ Role(last'.caller) \in CreatorRoles
        /\ last'.geo \in GeocodingFailures) =>
            /\ last'.res.ok
            /\ last'.id \in DOMAIN properties' \ DOMAIN properties
            /\ properties'[last'.id].ownerId = last'.caller
            /\ properties'[last'.id].latitude = last'.dto.latitude
            /\ properties'[last'.id].longitude = last'.dto.longitude
    ]_vars

\* C12 witness: a request with an address and no coordinates met a failing
\* geocoding request, and the property was created without coordinates.
C12_Witness ==
    /\ last.op = "geoPropertiesCreate"
    /\ last.geo = "ERROR"
    /\ last.dto.address # ""
    /\ last.dto.latitude = Unset
    /\ last.res.ok
    /\ last.id \in DOMAIN properties
    /\ properties[last.id].latitude = Unset
    /\ properties[last.id].longitude = Unset

\* A caller the geocoding controller lets write property p: role listed by
\* @Roles, and owner of p or ADMIN.
PropertyWriter(u, p) ==
    /\ Role(u) \in CreatorRoles
    /\ (properties[p].ownerId = u \/ Role(u) = "ADMIN")

\* No Booking or Conversation row refers to property p.
Unreferenced(p) ==
    /\ \A b \in bookings : b.propertyId # p
    /\ \A c \in conversations : c.propertyId # p

\* C13: with the search engine failing, create, update and remove still write
\* the database and return success while the index stays as it was; and the
\* index changes only inside such a call that found the engine working, so
\* nothing repairs the difference later.
C13_SearchFailureLeavesDatabaseWrite ==
    [][/\ (/\ last'.op = "geoPropertiesCreate"
           /\ Role(last'.caller) \in CreatorRoles
           /\ ~last'.engineOk) =>
              /\ last'.res.ok
              /\ last'.id \in DOMAIN properties' \ DOMAIN properties
              /\ searchIndex' = searchIndex
       /\ (/\ last'.op = "geoPropertiesUpdate"
           /\ last'.id \in DOMAIN properties
           /\ PropertyWriter(last'.caller, last'.id)
           /\ ~last'.engineOk) =>
              /\ last'.res.ok
              /\ \A f \in DOMAIN last'.dto \ {"latitude", "longitude"} :
                    properties'[last'.id][f] = last'.dto[f]
              /\ searchIndex' = searchIndex
       /\ (/\ last'.op = "geoPropertiesRemove"
           /\ last'.id \in DOMAIN properties
           /\ PropertyWriter(last'.caller, last'.id)
           /\ Unreferenced(last'.id)
           /\ ~last'.engineOk) =>
              /\ last'.res.ok
              /\ last'.id \notin DOMAIN properties'
              /\ searchIndex' = searchIndex
       /\ searchIndex' # searchIndex =>
              /\ last'.op \in {"geoPropertiesCreate", "geoPropertiesUpdate",
                               "geoPropertiesRemove"}
              /\ last'.engineOk
              /\ last'.res.ok
    ]_vars

\* C13 witness: create answered success with the engine down; the property is
\* in the database and not in the index.
C13_Witness ==
    /\ last.op = "geoPropertiesCreate"
    /\ ~last.engineOk
    /\ last.res.ok
    /\ last.id \in DOMAIN properties
    /\ last.id \notin DOMAIN searchIndex

\* C14: create answers NotFound for a missing property, BadRequest for an
\* unavailable one and BadRequest for startDate >= endDate, and a rejected call
\* inserts nothing; a successful call adds exactly one row, PENDING, of the
\* caller, for the requested property and dates, and leaves every other row as
\* it was.
C14_CreateValidatesThenInsertsOnePending ==
    [][last'.op = "create" =>
        LET dto == last'.dto
            res == last'.res
        IN  /\ dto.propertyId \notin DOMAIN properties =>
                 (res.kind = "NotFound" /\ bookings' = bookings)
            /\ (dto.propertyId \in DOMAIN properties
                /\ ~properties[dto.propertyId].available) =>
                 (res.kind = "BadRequest" /\ bookings' = bookings)
            /\ (dto.propertyId \in DOMAIN properties
                /\ dto.startDate >= dto.endDate) =>
                 (res.kind = "BadRequest" /\ bookings' = bookings)
            /\ ~res.ok => bookings' = bookings
            /\ res.ok =>
                 \E b \in bookings' :
                    /\ b \notin bookings
                    /\ \A old \in bookings : old.id # b.id
                    /\ bookings' = bookings \cup {b}
                    /\ b.status = "PENDING"
                    /\ b.userId = last'.caller
                    /\ b.propertyId = dto.propertyId
                    /\ b.startDate = dto.startDate
                    /\ b.endDate = dto.endDate
    ]_vars

\* C14 witness: a request with valid dates for a property its owner had made
\* unavailable was rejected.
C14_Witness ==
    /\ last.op = "create"
    /\ last.res.kind = "BadRequest"
    /\ last.dto.startDate < last.dto.endDate
    /\ last.dto.propertyId \in DOMAIN properties
    /\ ~properties[last.dto.propertyId].available

\* C15: a webhook step changes a booking only when a secret is configured and
\* the signature verified; without the stripe-signature header the answer is
\* BadRequest, with a signature that fails verification it is BadRequest, and
\* without a configured secret it is {received: true} with no booking changed.
C15_WebhookWritesOnlyAfterVerification ==
    [][last'.op = "webhook" =>
        /\ bookings' # bookings => (last'.secretSet /\ last'.signature = "good")
        /\ last'.signature = "none" =>
             (last'.res.kind = "BadRequest" /\ bookings' = bookings)
        /\ (last'.secretSet /\ last'.signature = "bad") =>
             (last'.res.kind = "BadRequest" /\ bookings' = bookings)
        /\ (~last'.secretSet /\ last'.signature # "none") =>
             (last'.res.ok /\ bookings' = bookings)
    ]_vars

\* C15 witness: with no secret configured, a payment_intent.succeeded event
\* naming an existing PENDING booking was answered {received: true} and the
\* booking is still PENDING.
C15_Witness ==
    /\ last.op = "webhook"
    /\ ~last.secretSet
    /\ last.signature = "bad"
    /\ last.type = "payment_intent.succeeded"
    /\ last.res.ok
    /\ \E b \in bookings : b.id = last.id /\ b.status = "PENDING"

\* C16: after the checkout page's handlePaymentSuccess, whose request
\* PUT /bookings/:id/status {status: CONFIRMED} is made by the booker, the
\* booking's status is CONFIRMED.
C16_CheckoutConfirmsBooking ==
    [][last'.op = "handlePaymentSuccess" =>
        \E b \in bookings' : b.id = last'.id /\ b.status = "CONFIRMED"
    ]_vars

\* C17: while a user is logged in, SocketProvider holds an open socket to
\* /messaging that carries the user's token (the socket whose 'connect' event
\* sets isConnected); while nobody is logged in, no socket is open.
C17_AuthenticatedHasSocket ==
    /\ webUser # NoUser => (webSocket.open /\ webSocket.token = authToken)
    /\ webUser = NoUser => ~webSocket.open

PaymentOps == {"createPaymentIntent", "createCheckoutSession"}

\* C18: createPaymentIntent and createCheckoutSession call the provider exactly
\* when the booking exists, belongs to the caller and is PENDING; a missing
\* booking gives NotFound, another user's booking Unauthorized, a booking that
\* is not PENDING BadRequest, each without a provider call; and no call of
\* either endpoint changes the Booking table.
C18_PaymentCallsProviderOnlyForOwnPendingBooking ==
    [][last'.op \in PaymentOps =>
        LET found == {b \in bookings : b.id = last'.id}
            own == {b \in found : b.userId = last'.caller}
            payable == {b \in own : b.status = "PENDING"}
        IN  /\ last'.providerCalled <=> payable # {}
            /\ found = {} => last'.res.kind = "NotFound"
            /\ (found # {} /\ own = {}) => last'.res.kind = "Unauthorized"
            /\ (own # {} /\ payable = {}) => last'.res.kind = "BadRequest"
            /\ (payable # {} /\ last'.providerOk) => last'.res.ok
            /\ bookings' = bookings
    ]_vars

\* C18 witness: the booker asked for a payment intent for their PENDING
\* booking, the provider was called and the booking is still PENDING.
C18_Witness ==
    /\ last.op = "createPaymentIntent"
    /\ last.providerCalled
    /\ last.res.ok
    /\ \E b \in bookings :
          b.id = last.id /\ b.userId = last.caller /\ b.status = "PENDING"

\* C19: createConversation succeeds whenever every id in participantIds is an
\* existing user and the optional property and booking checks pass, and the
\* new conversation's participants are the users of participantIds and the caller.
C19_CreateConversationAcceptsExistingParticipants ==
    [][last'.op = "createConversation" =>
        LET dto == last'.dto
            ids == {dto.participantIds[i] : i \in 1..Len(dto.participantIds)}
        IN  (/\ ids \subseteq Users
             /\ (dto.propertyId = NoProperty \/ dto.propertyId \in DOMAIN properties)
             /\ \/ dto.bookingId = Null
                \/ /\ \E b \in bookings : b.id = dto.bookingId
                   /\ \A c \in conversations : c.bookingId # dto.bookingId) =>
                /\ last'.res.ok
                /\ \E c \in conversations' :
                      /\ c \notin conversations
                      /\ c.participants = ids \cup {last'.caller}
    ]_vars

\* The row of message m after the step.
After(m) == CHOOSE n \in messages' : n.id = m.id

\* C20: a successful markMessagesAsRead(c, u) sets readAt on exactly the
\* messages of c that u did not send and that were unread, and changes nothing
\* else of any message; in no step does a readAt that is set change; and a
\* second markMessagesAsRead(c, u) right after the first changes nothing.
C20_MarkReadSetsOnlyUnreadFromOthers ==
    [][/\ {n.id : n \in messages} \subseteq {n.id : n \in messages'}
       /\ \A m \in messages : m.readAt # Null => After(m).readAt = m.readAt
       /\ last'.op = "markMessagesAsRead" =>
            /\ Cardinality(messages') = Cardinality(messages)
            /\ \A m \in messages :
                  IF /\ last'.res.ok
                     /\ m.conversationId = last'.id
                     /\ m.senderId # last'.caller
                     /\ m.readAt = Null
                  THEN /\ After(m).readAt # Null
                       /\ [After(m) EXCEPT !.readAt = Null] = m
                  ELSE After(m) = m
            /\ (/\ last.op = "markMessagesAsRead"
                /\ last.id = last'.id
                /\ last.caller = last'.caller) => messages' = messages
    ]_vars

\* C20 witness: after markMessagesAsRead(c, u) the conversation holds a message
\* of another sender that is read and a message of u that is not.
C20_Witness ==
    /\ last.op = "markMessagesAsRead"
    /\ last.res.ok
    /\ \E m \in messages, own \in messages :
          /\ m.conversationId = last.id
          /\ m.senderId # last.caller
          /\ m.readAt # Null
          /\ own.conversationId = last.id
          /\ own.senderId = last.caller
          /\ own.readAt = Null

\* The user a socket's token was verified for: its connectedClients entry, and
\* for a socket that went away while handleConnection awaited, the user of its
\* user room.
C21_UserOf(cc, rm, s) == IF s \in DOMAIN cc THEN cc[s] ELSE rm[s].user

\* C21: a socket is in room conversation:c only if its authenticated user is a
\* participant of c, in every state the gateway reaches; rooms are entered at
\* connect time for the user's own conversations and by joinConversation after
\* the participant check, and a joinConversation that fails leaves every
\* socket's rooms as they were.
C21_RoomMembersAreParticipants ==
    [][ /\ \A s \in Sockets : \A c \in rooms'[s].conversations :
              \E conv \in conversations' :
                 /\ conv.id = c
                 /\ C21_UserOf(connectedClients', rooms', s) \in conv.participants
        /\ \A s \in Sockets :
              rooms'[s].conversations \ rooms[s].conversations # {} =>
                 /\ last'.op \in {"handleConnectionJoin", "handleJoinConversation"}
                 /\ last'.socket = s
                 /\ last'.res.ok
        /\ (last'.op = "handleJoinConversation" /\ ~last'.res.ok => rooms' = rooms)
      ]_vars

\* C21 witness: a socket whose user is not a participant was refused by
\* joinConversation and is outside the room that another socket is in.
C21_Witness ==
    /\ last.op = "handleJoinConversation"
    /\ last.res.kind = "Forbidden"
    /\ last.id \notin rooms[last.socket].conversations
    /\ \E s \in Sockets : s # last.socket /\ last.id \in rooms[s].conversations

\* C22: updateStatus by the property's owner or an ADMIN succeeds on every
\* existing booking whatever its current status, sets the requested status and
\* changes nothing else, with no overlap check: CANCELLED and COMPLETED are not
\* terminal.
C22_OwnerOrAdminMovesAnyStatusToAny ==
    [][ last'.op = "updateStatus" =>
          \A b \in bookings :
             ( /\ b.id = last'.id
               /\ \/ properties[b.propertyId].ownerId = last'.caller
                  \/ last'.caller = "admin" )
             => /\ last'.res.ok
                /\ last'.from = b.status
                /\ bookings' = (bookings \ {b}) \cup {[b EXCEPT !.status = last'.status]}
      ]_vars

\* C22 witness: a CANCELLED booking was moved to CONFIRMED over the nights of
\* another active booking of the same property.
C22_Witness ==
    /\ last.op = "updateStatus"
    /\ last.res.ok
    /\ last.from = "CANCELLED"
    /\ last.status = "CONFIRMED"
    /\ \E b \in bookings, o \in bookings :
          /\ b.id = last.id
          /\ b.status = "CONFIRMED"
          /\ o.id # b.id
          /\ o.propertyId = b.propertyId
          /\ o.status \in {"PENDING", "CONFIRMED"}
          /\ o.startDate <= b.endDate
          /\ o.endDate >= b.startDate

C24_RefundAlwaysEndsNoPaymentFound ==
    /\ \A b \in bookings : b.paymentIntentId = ""
    /\ [][ /\ \A b \in bookings' : b.paymentIntentId = ""
           /\ last'.op = "createRefund" =>
                 /\ last'.res.kind = "BadRequest"
                 /\ last'.res.msg = "No payment found for this booking"
                 /\ bookings' = bookings
         ]_vars

\* C24: no booking reached through the API has a paymentIntentId, so
\* createRefund never succeeds and never changes a booking: it ends with
\* BadRequest 'No payment found for this booking' when the booking exists, the
\* caller is its booker, the property's owner or an ADMIN and it is CONFIRMED,
\* and with the error of the failed earlier check otherwise.
C24_RefundNeverPassesPaymentLookup ==
    /\ \A b \in bookings : b.paymentIntentId = ""
    /\ [][ /\ \A b \in bookings' : b.paymentIntentId = ""
           /\ last'.op = "createRefund" =>
                 /\ ~last'.res.ok
                 /\ bookings' = bookings
                 /\ IF \A b \in bookings : b.id # last'.id
                    THEN last'.res.kind = "NotFound"
                    ELSE \A b \in bookings : b.id = last'.id =>
                           IF ~(\/ b.userId = last'.caller
                                \/ properties[b.propertyId].ownerId = last'.caller
                                \/ last'.caller = "admin")
                           THEN last'.res.kind = "Unauthorized"
                           ELSE /\ last'.res.kind = "BadRequest"
                                /\ last'.res.msg =
                                      IF b.status = "CONFIRMED"
                                      THEN "No payment found for this booking"
                                      ELSE "Can only refund confirmed bookings"
         ]_vars

\* C24 witness: a booking created and confirmed through the API was sent to
\* createRefund by an allowed caller; the call ended with 'No payment found for
\* this booking' and the booking is still CONFIRMED.
C24_Witness ==
    /\ last.op = "createRefund"
    /\ last.res.msg = "No payment found for this booking"
    /\ \E b \in bookings :
          /\ b.id = last.id
          /\ b.id # SeedBooking.id
          /\ b.status = "CONFIRMED"
          /\ b.paymentIntentId = ""

====
